---------------------------- MODULE Spec2Model ----------------------------
(***************************************************************************)
(* Retrieval-augmented answering pipeline of Agent Deen.                   *)
(*                                                                         *)
(* The module models src/ai/rag.py (RAGPipeline), src/ai/translator.py     *)
(* (ensure_response_language), src/core/language.py (detect_language),     *)
(* src/services/chat.py (ChatService) and the /chat handler of             *)
(* src/api/main.py.                                                        *)
(*                                                                         *)
(* Conventions                                                             *)
(*   - a string that the code inspects character by character (questions,  *)
(*     titles, file names) is a sequence of one-character strings; the     *)
(*     letters of the Arabic block are written "alef", "lam", ...          *)
(*   - a free text that the code only measures and forwards (passage       *)
(*     bodies, generated answers) is a record [body, lang, paras] where    *)
(*     paras is the sequence of the lengths of its "\n\n" paragraphs        *)
(*   - scores are integers in hundredths, cosine similarities and rerank   *)
(*     logits alike (0.60 is 60, a logit of 7.0 is 700)                    *)
(*   - an external capability (translation, vector search, cross-encoder,  *)
(*     language identification, generation) is a nondeterministic choice   *)
(*     among the outcomes it can produce, recorded in trace                *)
(***************************************************************************)
EXTENDS Integers, Sequences, FiniteSets, TLC

(***************************************************************************)
(* Bounds of the model                                                     *)
(***************************************************************************)
MaxDocs == 4          \* longest list of matches the vector index returns
MaxHistory == 7       \* longest chat history handed to rewrite_query

(***************************************************************************)
(* Sentinels                                                               *)
(***************************************************************************)
NULL == "None"                    \* Python None
NoText == [body |-> "None", lang |-> "None", paras |-> <<>>]

(***************************************************************************)
(* src/core/config.py: Settings.  The RAG settings are environment         *)
(* overridable (pydantic BaseSettings); the candidate and top-K sizes are  *)
(* scaled down with the bounds, the threshold keeps its default.           *)
(***************************************************************************)
rag_rerank_top_k == 2
rag_relevance_threshold == 60

(***************************************************************************)
(* Character classes                                                       *)
(***************************************************************************)
LowerLetters ==
    <<"a","b","c","d","e","f","g","h","i","j","k","l","m",
      "n","o","p","q","r","s","t","u","v","w","x","y","z">>
UpperLetters ==
    <<"A","B","C","D","E","F","G","H","I","J","K","L","M",
      "N","O","P","Q","R","S","T","U","V","W","X","Y","Z">>
Range(s) == {s[i] : i \in DOMAIN s}
LatinLetters == Range(LowerLetters) \cup Range(UpperLetters)
ArabicBlock == {"alef", "lam", "ra", "ba", "meem"}
Whitespace == {" ", "\n", "\t"}
HexDigits == {"a","b","c","d","e","f","0","1","2","3","4","5","6","7","8","9"}

\* str.lower() on one character
LowerChar(c) ==
    IF \E i \in DOMAIN UpperLetters : UpperLetters[i] = c
    THEN LowerLetters[CHOOSE i \in DOMAIN UpperLetters : UpperLetters[i] = c]
    ELSE c
Lower(t) == [i \in DOMAIN t |-> LowerChar(t[i])]

\* needle in haystack (Python substring test)
Contains(haystack, needle) ==
    \E i \in 1..(Len(haystack) - Len(needle) + 1) :
        SubSeq(haystack, i, i + Len(needle) - 1) = needle

\* len(text.split()): the maximal runs of non-whitespace characters
WordCount(t) ==
    Cardinality({i \in DOMAIN t :
                   /\ t[i] \notin Whitespace
                   /\ (i = 1 \/ t[i-1] \in Whitespace)})

CountIn(t, class) == Cardinality({i \in DOMAIN t : t[i] \in class})

\* text.strip()
Strip(t) ==
    LET keep == {i \in DOMAIN t : t[i] \notin Whitespace}
    IN  IF keep = {} THEN <<>>
        ELSE LET lo == CHOOSE i \in keep : \A j \in keep : i <= j
                 hi == CHOOSE i \in keep : \A j \in keep : j <= i
             IN  SubSeq(t, lo, hi)

(***************************************************************************)
(* src/core/language.py                                                    *)
(***************************************************************************)
Language == {"ar", "en", "ms", "mixed"}

display_name(l) ==
    CASE l = "ar" -> "Arabic"
      [] l = "en" -> "English"
      [] l = "ms" -> "Bahasa Melayu"
      [] l = "mixed" -> "Mixed"

malay_markers ==
    {<<"a","d","a","l","a","h">>, <<"d","e","n","g","a","n">>, <<"u","n","t","u","k">>,
     <<"y","a","n","g">>, <<"i","n","i">>, <<"i","t","u">>,
     <<"b","o","l","e","h">>, <<"t","i","d","a","k">>, <<"a","d","a">>,
     <<"s","a","y","a">>, <<"k","i","t","a">>, <<"d","a","l","a","m">>,
     <<"k","e","p","a","d","a">>, <<"d","a","r","i","p","a","d","a">>, <<"s","e","p","e","r","t","i">>,
     <<"o","l","e","h">>, <<"t","e","t","a","p","i">>, <<"a","t","a","u">>,
     <<"j","i","k","a">>, <<"a","p","a","b","i","l","a">>, <<"k","e","r","a","n","a">>,
     <<"s","u","p","a","y","a">>, <<"a","p","a","k","a","h">>, <<"b","a","g","a","i","m","a","n","a">>,
     <<"m","e","n","g","a","p","a">>, <<"s","i","a","p","a">>, <<"b","i","l","a">>,
     <<"a","d","a","k","a","h">>, <<"b","e","r","a","p","a">>, <<"m","a","n","a">>,
     <<"k","e","n","a","p","a">>, <<"m","a","c","a","m">>, <<"p","e","r","b","a","n","k","a","n">>,
     <<"k","e","w","a","n","g","a","n">>, <<"p","a","t","u","h">>, <<"s","y","a","r","i","a","h">>,
     <<"h","a","l","a","l">>, <<"h","a","r","a","m">>, <<"f","a","e","d","a","h">>,
     <<"r","i","b","a">>, <<"p","i","n","j","a","m","a","n">>, <<"p","e","l","a","b","u","r","a","n">>,
     <<"m","a","h","u">>, <<"h","e","n","d","a","k">>, <<"p","e","r","l","u">>,
     <<"i","n","g","i","n">>, <<"a","k","a","n">>, <<"t","e","l","a","h">>,
     <<"s","u","d","a","h">>, <<"s","e","d","a","n","g">>, <<"d","a","p","a","t">>,
     <<"b","o","l","e","h","k","a","h">>}

\* a comparison that also accepts the ratio num/den itself
RatioAtLeast(arabic_chars, total, num, den) == arabic_chars * den >= num * total

\* arabic_ratio > num/den, with arabic_ratio = arabic_chars / total
RatioAbove(arabic_chars, total, num, den) == arabic_chars * den > num * total

detect_language(text) ==
    IF Len(text) = 0 \/ Len(Strip(text)) = 0 THEN "en"
    ELSE
      LET arabic_chars == CountIn(text, ArabicBlock)
          latin_chars == CountIn(text, LatinLetters)
          total == arabic_chars + latin_chars
          text_lower == Lower(text)
          malay_matches ==
              Cardinality({word \in malay_markers : Contains(text_lower, word)})
          word_count == WordCount(text)
      IN  IF total = 0 THEN "en"
          ELSE IF RatioAbove(arabic_chars, total, 6, 10) THEN "ar"
          ELSE IF RatioAbove(arabic_chars, total, 1, 10) THEN "mixed"
          ELSE IF word_count <= 5 /\ malay_matches >= 1 THEN "ms"
          ELSE IF malay_matches >= 2 THEN "ms"
          ELSE "en"


(***************************************************************************)
(* Sample inputs                                                           *)
(***************************************************************************)
\* "What is sukuk?"
Q_en == <<"W","h","a","t"," ","i","s"," ","s","u","k","u","k","?">>
\* "Apakah itu Takaful?"
Q_ms == <<"A","p","a","k","a","h"," ","i","t","u"," ","T","a","k","a","f","u","l","?">>
\* a question written in Arabic letters
Q_ar == <<"meem","alef"," ","alef","lam","ra","ba","alef","?">>
\* "riba" followed by the same word in Arabic letters
Q_mixed == <<"r","i","b","a"," ","ra","ba","alef">>
Questions == {Q_en, Q_ms, Q_ar, Q_mixed}

\* What GoogleTranslator(target="en").translate returns when it succeeds
\* "What is Takaful?"
T_ms == <<"W","h","a","t"," ","i","s"," ","T","a","k","a","f","u","l","?">>
\* "What is riba?"
T_ar == <<"W","h","a","t"," ","i","s"," ","r","i","b","a","?">>
\* "riba riba"
T_mixed == <<"r","i","b","a"," ","r","i","b","a">>
GoogleTranslateToEnglish(query) ==
    CASE query = Q_ms -> T_ms
      [] query = Q_ar -> T_ar
      [] query = Q_mixed -> T_mixed
      [] OTHER -> query

\* language values a caller may pass to ChatService.ask
LanguageInputs == {NULL, "ms", "mixed", "fr"}
\* model identifiers a caller may pass to ChatService.ask
ModelInputs == {"ollama"}

(***************************************************************************)
(* Passages held by the vector index (src/vector_db/pinecone_store.py,     *)
(* PineconeStore.search: text, score, metadata of each match)              *)
(***************************************************************************)
Hash_A == <<"a","1","b","2","c","3","d","4","e","5","f","6">>
Hash_B == <<"0","1","2","3","4","5","6","7","8","9","a","b">>
NoName == <<>>
Unknown == <<"U","n","k","n","o","w","n">>

NoScore == 0 - 99999               \* the key 'rerank_score' is absent
NoPage == 0                      \* the key 'page_number' is absent
Meta(source, title, filename, page, total, original) ==
    [source |-> source, title |-> title, filename |-> filename,
     page_number |-> page, total_pages |-> total,
     original_text |-> original, rerank_score |-> NoScore]

P_A == [text |-> [body |-> "murabaha", lang |-> "en", paras |-> <<420>>],
        score |-> 82,
        metadata |-> Meta("BNM", Hash_A \o <<"_","R","i","b","a">>,
                          Hash_A \o <<"_","r",".","p","d","f">>, 12, 40, NoText)]
P_B == [text |-> [body |-> "takaful", lang |-> "en", paras |-> <<150>>],
        score |-> 60,
        metadata |-> Meta("AAOIFI", NoName,
                          Hash_B \o <<" ","_","t",".","p","d","f">>, 3, 9, NoText)]
P_C == [text |-> [body |-> "sukuk", lang |-> "en", paras |-> <<90>>],
        score |-> 41,
        metadata |-> Meta("JAKIM", Unknown, <<"s",".","p","d","f">>, NoPage, NoPage,
                          [body |-> "sukuk", lang |-> "ar", paras |-> <<260>>])]
Passages == {P_A, P_B, P_C}

IsSortedByScore(s) == \A i \in 1..(Len(s) - 1) : s[i].score >= s[i+1].score

\* the lists of matches index.query can return: best first, at most top_k
SearchResults(top_k) ==
    LET n == IF top_k < MaxDocs THEN top_k ELSE MaxDocs
    IN  {s \in UNION {[1..k -> Passages] : k \in 0..n} : IsSortedByScore(s)}

(***************************************************************************)
(* Cross-encoder (sentence_transformers.CrossEncoder.predict): a logit per *)
(* (query, passage text) pair                                              *)
(***************************************************************************)
NotANumber == 0 - 100000           \* stands for an entry float() cannot convert
CrossEncoders ==
    {[b \in {"murabaha", "takaful", "sukuk"} |->
         CASE b = "murabaha" -> 0 - 300 [] b = "takaful" -> 700 [] b = "sukuk" -> 200],
     [b \in {"murabaha", "takaful", "sukuk"} |->
         CASE b = "murabaha" -> 400 [] b = "takaful" -> 400 [] b = "sukuk" -> 30]}

\* what predict(pairs) can hand back: an exception, or one entry per pair
PredictOutcomes(docs) ==
    {[raised |-> TRUE, scores |-> <<>>]} \cup
    {[raised |-> FALSE,
      scores |-> [i \in DOMAIN docs |->
                    IF i = bad THEN NotANumber ELSE enc[docs[i].text.body]]] :
        enc \in CrossEncoders, bad \in 0..Len(docs)}

(***************************************************************************)
(* Free texts                                                              *)
(***************************************************************************)
RECURSIVE SumSeq(_)
SumSeq(s) == IF s = <<>> THEN 0 ELSE Head(s) + SumSeq(Tail(s))

\* len(text): the paragraphs and the "\n\n" between them
TextLen(t) == IF t.paras = <<>> THEN 0
              ELSE SumSeq(t.paras) + 2 * (Len(t.paras) - 1)

\* len(text.strip()): empty paragraphs at both ends are whitespace
StrippedLen(t) ==
    LET keep == {i \in DOMAIN t.paras : t.paras[i] > 0}
    IN  IF keep = {} THEN 0
        ELSE LET lo == CHOOSE i \in keep : \A j \in keep : i <= j
                 hi == CHOOSE i \in keep : \A j \in keep : j <= i
             IN  SumSeq(SubSeq(t.paras, lo, hi)) + 2 * (hi - lo)

\* the fixed message of the insufficient-information branch
no_info_msg == [body |-> "no_info", lang |-> "en", paras |-> <<113>>]

\* what llm.generate can return for the answer prompt
Answers ==
    {[body |-> "grounded", lang |-> "en", paras |-> <<600>>],
     [body |-> "grounded", lang |-> "ms", paras |-> <<600>>],
     [body |-> "refusal", lang |-> "en", paras |-> <<229>>],
     [body |-> "refusal", lang |-> "ms", paras |-> <<226>>]}


(***************************************************************************)
(* src/ai/translator.py                                                    *)
(***************************************************************************)
LANGUAGE_TO_CODE(l) ==
    CASE l = "ar" -> "ar"
      [] l = "en" -> "en"
      [] l = "ms" -> "ms"
      [] l = "mixed" -> "en"
      [] OTHER -> "en"

max_chars == 4500

LangDetectException == "LangDetectException"

\* what langdetect can say about a text: its language, the Indonesian code
\* for a Malay text, or a detection failure
IdentifyOutcomes(text) ==
    {text.lang, LangDetectException} \cup
    (IF text.lang = "ms" THEN {"id"} ELSE {})

\* detect_output_language: identified is the outcome of langdetect, used
\* only when the text is long enough to be handed to it
detect_output_language(text, identified) ==
    IF TextLen(text) = 0 \/ StrippedLen(text) < 10 THEN NULL
    ELSE IF identified = LangDetectException THEN NULL
    ELSE identified

CallsLangdetect(text) == ~(TextLen(text) = 0 \/ StrippedLen(text) < 10)

\* the pieces ensure_response_language hands to translator.translate
TranslationPieces(response) ==
    IF TextLen(response) <= max_chars THEN <<TextLen(response)>>
    ELSE SelectSeq(response.paras, LAMBDA n : n > 0)

\* GoogleTranslator(source="auto", target=code).translate on the whole text
GoogleTranslate(text, code) == [text EXCEPT !.lang = code]

\* a comparison that takes Indonesian for another language than Malay
AlreadyInTarget_exact(target_code, detected_code) == detected_code = target_code

\* the two tests that skip the translation: Malay answers identified as
\* Malay or Indonesian, and answers identified as the target
AlreadyInTarget(target_code, detected_code) ==
    \/ target_code = "ms" /\ detected_code \in {"ms", "id"}
    \/ detected_code = target_code

\* an except clause that hands back the paragraphs translated so far
ReturnedOnFailure_translated_parts(response, target_code) ==
    [response EXCEPT !.lang = "partly translated"]

\* the except clause of the translation: the original response
ReturnedOnFailure(response, target_code) == response

\* the enforcer without its except clause: a failed translation raises
ensure_response_language_unguarded(response, target_language, identified, fail_at) ==
    LET target_code == LANGUAGE_TO_CODE(target_language)
        detected_code == detect_output_language(response, identified)
        pieces == TranslationPieces(response)
        id_calls == IF ~CallsLangdetect(response) THEN <<>>
                    ELSE IF identified = LangDetectException
                    THEN <<"identify", "identify_failed">>
                    ELSE <<"identify">>
        unchanged == [text |-> response, calls |-> id_calls, sent |-> <<>>,
                      raised |-> FALSE]
    IN  IF TextLen(response) = 0 \/ StrippedLen(response) = 0
        THEN [text |-> response, calls |-> <<>>, sent |-> <<>>,
              raised |-> FALSE]
        ELSE IF detected_code = NULL THEN unchanged
        ELSE IF AlreadyInTarget(target_code, detected_code) THEN unchanged
        ELSE IF fail_at \in 1..Len(pieces)
        THEN [text |-> ReturnedOnFailure(response, target_code),
              calls |-> id_calls \o [i \in 1..fail_at |-> "translate_answer"]
                                \o <<"translate_answer_failed">>,
              sent |-> SubSeq(pieces, 1, fail_at),
              raised |-> TRUE]
        ELSE [text |-> GoogleTranslate(response, target_code),
              calls |-> id_calls \o [i \in 1..Len(pieces) |-> "translate_answer"],
              sent |-> pieces,
              raised |-> FALSE]

\* ensure_response_language(response, target_language) with
\*   identified: the outcome of langdetect
\*   fail_at:    0 when every translate call succeeds, k when the k-th raises
\* The result is the returned text, the external calls that were made, the
\* lengths of the pieces sent to the translator and whether the function
\* raised (its except clause catches every failure of the translation).
ensure_response_language(response, target_language, identified, fail_at) ==
    LET target_code == LANGUAGE_TO_CODE(target_language)
        detected_code == detect_output_language(response, identified)
        pieces == TranslationPieces(response)
        id_calls == IF ~CallsLangdetect(response) THEN <<>>
                    ELSE IF identified = LangDetectException
                    THEN <<"identify", "identify_failed">>
                    ELSE <<"identify">>
        unchanged == [text |-> response, calls |-> id_calls, sent |-> <<>>,
                      raised |-> FALSE]
    IN  IF TextLen(response) = 0 \/ StrippedLen(response) = 0
        THEN [text |-> response, calls |-> <<>>, sent |-> <<>>,
              raised |-> FALSE]
        ELSE IF detected_code = NULL THEN unchanged
        ELSE IF AlreadyInTarget(target_code, detected_code) THEN unchanged
        ELSE IF fail_at \in 1..Len(pieces)
        THEN [text |-> ReturnedOnFailure(response, target_code),
              calls |-> id_calls \o [i \in 1..fail_at |-> "translate_answer"]
                                \o <<"translate_answer_failed">>,
              sent |-> SubSeq(pieces, 1, fail_at),
              raised |-> FALSE]
        ELSE [text |-> GoogleTranslate(response, target_code),
              calls |-> id_calls \o [i \in 1..Len(pieces) |-> "translate_answer"],
              sent |-> pieces,
              raised |-> FALSE]

\* the outcomes of the translation calls worth distinguishing for a text
FailPoints(response) == 0..Len(TranslationPieces(response))

(***************************************************************************)
(* src/ai/rag.py: helpers of RAGPipeline.query                             *)
(***************************************************************************)
LLM_OLLAMA == "ollama"
LLM_CLAUDE == "claude"

\* the translation without its except clause: a failed call raises
translate_query_to_english_unguarded(query, source_lang, ok) ==
    IF source_lang = "en"
    THEN [text |-> query, calls |-> <<>>, raised |-> FALSE]
    ELSE IF ok
    THEN [text |-> GoogleTranslateToEnglish(query),
          calls |-> <<"translate_query">>, raised |-> FALSE]
    ELSE [text |-> query,
          calls |-> <<"translate_query", "translate_query_failed">>,
          raised |-> TRUE]

\* translate_query_to_english; ok is the outcome of the translation call
translate_query_to_english(query, source_lang, ok) ==
    IF source_lang = "en"
    THEN [text |-> query, calls |-> <<>>, raised |-> FALSE]
    ELSE IF ok
    THEN [text |-> GoogleTranslateToEnglish(query),
          calls |-> <<"translate_query">>, raised |-> FALSE]
    ELSE [text |-> query,
          calls |-> <<"translate_query", "translate_query_failed">>,
          raised |-> FALSE]

\* re.sub(r'^[a-f0-9]{12}[_\s]+', '', name)
clean_regex(name) ==
    IF /\ Len(name) >= 13
       /\ \A i \in 1..12 : name[i] \in HexDigits
       /\ name[13] \in Whitespace \cup {"_"}
    THEN LET sep == {i \in 13..Len(name) :
                        \A j \in 13..i : name[j] \in Whitespace \cup {"_"}}
             last == CHOOSE i \in sep : \A j \in sep : j <= i
         IN  SubSeq(name, last + 1, Len(name))
    ELSE name

\* title if available, otherwise the cleaned file name
DisplayName(metadata) ==
    IF metadata.title # NoName /\ metadata.title # Unknown
    THEN clean_regex(metadata.title)
    ELSE clean_regex(metadata.filename)

\* a rerank that leaves the docs in their retrieval order
SortByScoreDesc_retrieval_order(docs) == docs

\* docs.sort(key=score, reverse=True): stable, equal scores keep their order
SortByScoreDesc(docs) ==
    LET rank(i) == Cardinality({j \in DOMAIN docs : docs[j].score > docs[i].score})
                   + Cardinality({j \in 1..(i-1) : docs[j].score = docs[i].score})
                   + 1
    IN  [k \in DOMAIN docs |-> docs[CHOOSE i \in DOMAIN docs : rank(i) = k]]

Prefix(s, n) == SubSeq(s, 1, IF n < Len(s) THEN n ELSE Len(s))

\* the loop that attaches the new scores: the first `written` docs carry them
AttachScores(docs, scores, written) ==
    [i \in DOMAIN docs |->
        IF i <= written
        THEN [docs[i] EXCEPT !.score = scores[i],
                             !.metadata.rerank_score = scores[i]]
        ELSE docs[i]]

\* a pipeline that reranks whether or not its reranker was initialised
ShouldRerank_without_reranker(reranker, docs) == docs # <<>>

\* "if self.reranker and docs"
ShouldRerank(reranker, docs) == reranker /\ docs # <<>>

\* step 2 of query: the rerank block and its except clause.  docs is mutated
\* in place, so the list the filter sees afterwards is the mutated one.
Rerank(reranker, docs, predicted) ==
    IF ~ShouldRerank(reranker, docs)
    THEN [docs |-> docs, relevant_docs |-> docs, reranked |-> FALSE,
          calls |-> <<>>, raised |-> FALSE]
    ELSE IF predicted.raised
    THEN [docs |-> docs, relevant_docs |-> docs, reranked |-> FALSE,
          calls |-> <<"predict", "rerank_failed">>, raised |-> FALSE]
    ELSE LET bad == {i \in DOMAIN docs : predicted.scores[i] = NotANumber}
         IN  IF bad # {}
             THEN LET first == CHOOSE i \in bad : \A j \in bad : i <= j
                      partial == AttachScores(docs, predicted.scores, first - 1)
                  IN  [docs |-> partial, relevant_docs |-> partial,
                       reranked |-> FALSE,
                       calls |-> <<"predict", "rerank_failed">>,
                       raised |-> FALSE]
             ELSE LET sorted == SortByScoreDesc(
                                   AttachScores(docs, predicted.scores, Len(docs)))
                  IN  [docs |-> sorted,
                       relevant_docs |-> Prefix(sorted, rag_rerank_top_k),
                       reranked |-> TRUE,
                       calls |-> <<"predict">>,
                       raised |-> FALSE]

\* a lookup whose default passes the threshold
get_score_default_one(d, default) ==
    IF "score" \in DOMAIN d THEN d.score ELSE 100

\* d.get("score", default)
get_score(d, default) == IF "score" \in DOMAIN d THEN d.score ELSE default

\* a filter that never drops a passage
RelevanceFilter_keep_all(relevant_docs, reranked) == relevant_docs

\* step 3 of query: the similarity threshold, applied when not reranked
RelevanceFilter(relevant_docs, reranked) ==
    IF ~reranked
    THEN SelectSeq(relevant_docs,
                   LAMBDA d : get_score(d, 0) >= rag_relevance_threshold)
    ELSE relevant_docs

\* snippet_text[:200] + "..." when longer than 200 characters
Snippet(text) ==
    IF TextLen(text) > 200
    THEN [body |-> text.body, lang |-> text.lang, len |-> 200, ellipsis |-> TRUE]
    ELSE [body |-> text.body, lang |-> text.lang, len |-> TextLen(text),
          ellipsis |-> FALSE]

SourceOf(doc) ==
    [source |-> doc.metadata.source,
     file |-> DisplayName(doc.metadata),
     filename |-> doc.metadata.filename,
     page |-> doc.metadata.page_number,
     total_pages |-> doc.metadata.total_pages,
     snippet |-> Snippet(IF doc.metadata.original_text # NoText
                         THEN doc.metadata.original_text ELSE doc.text),
     score |-> doc.score]

extract_sources(documents) == [i \in DOMAIN documents |-> SourceOf(documents[i])]

\* a label whose High starts above 4 passages
calculate_confidence_above_four(documents) ==
    LET count == Len(documents)
    IN  IF count > 4 THEN "High"
        ELSE IF count >= 2 THEN "Medium"
        ELSE "Low"

\* _calculate_confidence
calculate_confidence(documents) ==
    LET count == Len(documents)
    IN  IF count >= 4 THEN "High"
        ELSE IF count >= 2 THEN "Medium"
        ELSE "Low"

\* the context block: one labelled part per relevant doc
ContextPart(i, d) ==
    [number |-> i, source |-> d.metadata.source,
     display_title |-> DisplayName(d.metadata),
     page |-> d.metadata.page_number, text |-> d.text]

\* a context whose labels run against the order of the passages
BuildContext_reversed(relevant_docs) ==
    [i \in DOMAIN relevant_docs |->
        ContextPart(i, relevant_docs[Len(relevant_docs) - i + 1])]

\* enumerate(relevant_docs): label i + 1 for the passage at index i
BuildContext(relevant_docs) ==
    [i \in DOMAIN relevant_docs |-> ContextPart(i, relevant_docs[i])]

\* SHARIAH_PROMPT.format(...)
BuildPrompt(context, question, query_lang, response_lang) ==
    [context |-> context, question |-> question,
     query_language |-> display_name(query_lang),
     response_language |-> display_name(response_lang)]

NoPrompt == [context |-> <<>>, question |-> <<>>,
             query_language |-> NULL, response_language |-> NULL]


(***************************************************************************)
(* State                                                                   *)
(***************************************************************************)
VARIABLES
    CLAUDE_AVAILABLE,     \* rag.py: whether .claude_llm could be imported
    rag,                  \* ChatService._rag_ollama / _rag_claude
    chat_history,         \* HistoryService: messages of the stored session
    pc,                   \* position of the request being served
    op,                   \* the operation being served
    question,             \* query(): question
    language_preference,  \* query(): language_preference
    slot,                 \* the pipeline serving the request
    model_id,             \* ask(): model
    query_lang,           \* query(): query_lang
    response_lang,        \* query(): response_lang
    search_query,         \* query(): search_query
    docs,                 \* query(): docs
    relevant_docs,        \* query(): relevant_docs
    reranked,             \* query(): reranked
    prompt,               \* query(): prompt
    rag_response,         \* the RAGResponse returned by query()
    error,                \* the exception leaving the operation, if any
    result,               \* value returned by rewrite_query / status of /chat
    trace,                \* external calls made by the request, in order
    response,             \* ensure_response_language(): response
    target_language,      \* ensure_response_language(): target_language
    enforced,             \* the first application of the enforcer
    enforced_again,       \* its application to its own result
    requests,             \* concurrent query() calls: the locals of each
    heap,                 \* the passage dicts the concurrent calls hold
    use_supabase,         \* is_supabase_configured()
    documents,            \* the documents table: status by file
    ingestion_history,    \* ingestion_history.json / the ingestion log table
    workers,              \* the threads that ingest: scheduler job, API handler
    logged                \* log_ingestion calls that have returned

vars == <<CLAUDE_AVAILABLE, rag, chat_history, pc, op, question,
          language_preference, slot, model_id, query_lang, response_lang, search_query,
          docs, relevant_docs, reranked, prompt, rag_response, error, result,
          trace, response, target_language, enforced, enforced_again,
          requests, heap, use_supabase, documents, ingestion_history, workers,
          logged>>

service == <<CLAUDE_AVAILABLE, rag, chat_history>>
locals == <<question, language_preference, slot, model_id, query_lang, response_lang,
            search_query, docs, relevant_docs, reranked, prompt, rag_response,
            error, result, trace>>

\* the state of one query() call, of the enforcer and of the ingestion
request == <<CLAUDE_AVAILABLE, rag, chat_history, pc, op, question,
             language_preference, slot, model_id, query_lang, response_lang,
             search_query, docs, relevant_docs, reranked, prompt, rag_response,
             error, result, trace>>
enforcer == <<response, target_language, enforced, enforced_again>>
concurrent == <<requests, heap>>
ingestion == <<use_supabase, documents, ingestion_history, workers, logged>>
outside == <<enforcer, concurrent, ingestion>>

NoPipeline == [built |-> FALSE, reranker |-> FALSE, llm_type |-> NULL,
               llm |-> NULL]
NoResponse == [answer |-> NoText, sources |-> <<>>, query_language |-> NULL,
               confidence |-> NULL, model_used |-> NULL, reranked |-> FALSE]
NoResult == [kind |-> NULL, text |-> <<>>, generated |-> <<>>,
             rendered |-> <<>>, status |-> 0, session |-> NULL,
             context |-> <<>>]
NoError == "no-error"

\* chat sessions that can be on disk when the service starts
SessionId == "s1"
UserMessage(q) ==
    [role |-> "user", content |-> [chars |-> q, text |-> NoText],
     sources |-> <<>>]
AssistantMessage(answer, sources) ==
    [role |-> "assistant", content |-> [chars |-> <<>>, text |-> answer],
     sources |-> sources]
\* the session that is on disk when the service starts
StoredMessages ==
    <<UserMessage(Q_ms),
      AssistantMessage([body |-> "grounded", lang |-> "ms",
                        paras |-> <<600>>], <<>>)>>

ClearLocals ==
    /\ question = <<>>
    /\ language_preference = NULL
    /\ slot = NULL
    /\ model_id = NULL
    /\ query_lang = NULL
    /\ response_lang = NULL
    /\ search_query = <<>>
    /\ docs = <<>>
    /\ relevant_docs = <<>>
    /\ reranked = FALSE
    /\ prompt = NoPrompt
    /\ rag_response = NoResponse
    /\ error = NoError
    /\ result = NoResult
    /\ trace = <<>>

\* the locals of a finished request go out of scope
ResetLocals ==
    /\ question' = <<>>
    /\ language_preference' = NULL
    /\ slot' = NULL
    /\ model_id' = NULL
    /\ query_lang' = NULL
    /\ response_lang' = NULL
    /\ search_query' = <<>>
    /\ docs' = <<>>
    /\ relevant_docs' = <<>>
    /\ reranked' = FALSE
    /\ prompt' = NoPrompt
    /\ rag_response' = NoResponse
    /\ error' = NoError
    /\ result' = NoResult
    /\ trace' = <<>>

\* no enforcer call, no concurrent call and no ingestion under way
NoCall == [identified |-> NULL, fail_at |-> 0,
           returned |-> [text |-> NoText, calls |-> <<>>, sent |-> <<>>,
                         raised |-> FALSE]]
IdleEnforcer ==
    /\ response = NoText
    /\ target_language = NULL
    /\ enforced = NoCall
    /\ enforced_again = NoCall

Clients == {1, 2}
NoPrediction == [raised |-> FALSE, scores |-> <<>>]
IdleRequest ==
    [pc |-> "idle", rag |-> NoPipeline, question |-> <<>>,
     query_lang |-> NULL, response_lang |-> NULL, found |-> <<>>, predicted |-> NoPrediction, docs |-> <<>>,
     relevant_docs |-> <<>>, reranked |-> FALSE, rag_response |-> NoResponse]
IdleConcurrent ==
    /\ requests = [c \in Clients |-> IdleRequest]
    /\ heap = <<>>

Threads == {"scheduler", "api"}
Files == {"policy.pdf"}
IdleWorker == [pc |-> "idle", file |-> NULL, doc_id |-> NULL,
               history |-> <<>>, pending |-> <<>>, result |-> NULL]
IdleIngestion ==
    /\ documents = [f \in Files |-> "absent"]
    /\ ingestion_history = <<>>
    /\ workers = [t \in Threads |-> IdleWorker]
    /\ logged = 0

IdleOutside ==
    /\ IdleEnforcer
    /\ IdleConcurrent
    /\ use_supabase = FALSE
    /\ IdleIngestion

Init ==
    /\ CLAUDE_AVAILABLE = TRUE
    /\ rag = [m \in {LLM_OLLAMA, LLM_CLAUDE} |-> NoPipeline]
    /\ chat_history = StoredMessages
    /\ pc = "idle"
    /\ op = NULL
    /\ ClearLocals
    /\ IdleOutside

(***************************************************************************)
(* src/ai/rag.py: RAGPipeline.__init__                                     *)
(***************************************************************************)
\* reranker_ok: CrossEncoder(...) succeeded; claude_ok: ClaudeLLM(...) succeeded
NewPipeline(llm_type, claude_available, reranker_ok, claude_ok) ==
    IF llm_type = LLM_CLAUDE /\ claude_available
    THEN IF claude_ok
         THEN [built |-> TRUE, reranker |-> reranker_ok, llm_type |-> llm_type,
               llm |-> "ClaudeLLM"]
         ELSE [built |-> TRUE, reranker |-> reranker_ok, llm_type |-> LLM_OLLAMA,
               llm |-> "OllamaLLM"]
    ELSE [built |-> TRUE, reranker |-> reranker_ok, llm_type |-> llm_type,
          llm |-> "OllamaLLM"]

(***************************************************************************)
(* src/services/chat.py: ChatService                                       *)
(***************************************************************************)
\* _get_rag: the slot that serves a model identifier
SlotOf(model) == IF model = LLM_CLAUDE THEN LLM_CLAUDE ELSE LLM_OLLAMA

\* Language(language): None unless the value names a Language
ParseLanguage(language) == IF language \in Language THEN language ELSE NULL

\* ask, up to the call of rag.query
ask(q, language, model) ==
    /\ pc = "idle"
    /\ \E reranker_ok \in BOOLEAN, claude_ok \in BOOLEAN :
         rag' = IF rag[SlotOf(model)].built THEN rag
                ELSE [rag EXCEPT ![SlotOf(model)] =
                        NewPipeline(SlotOf(model), CLAUDE_AVAILABLE,
                                    reranker_ok, claude_ok)]
    /\ op' = "ask"
    /\ pc' = "detect"
    /\ question' = q
    /\ language_preference' = ParseLanguage(language)
    /\ slot' = SlotOf(model)
    /\ model_id' = model
    /\ UNCHANGED <<CLAUDE_AVAILABLE, chat_history, query_lang, response_lang,
                   search_query, docs, relevant_docs, reranked, prompt,
                   rag_response, error, result, trace>>
    /\ UNCHANGED outside

\* ask: the ChatResponse is handed to the caller, or the exception of query
\* leaves ask; the request's locals go out of scope
ask_return ==
    /\ op = "ask"
    /\ pc \in {"returned", "raised"}
    /\ pc' = "idle"
    /\ op' = NULL
    /\ ResetLocals
    /\ UNCHANGED service
    /\ UNCHANGED outside

(***************************************************************************)
(* src/ai/rag.py: RAGPipeline.query                                        *)
(***************************************************************************)
\* a choice that lets Mixed through
ResponseLanguage_keep_mixed(preference, detected) ==
    IF preference # NULL THEN preference ELSE detected

\* response_lang = language_preference or query_lang, Mixed becoming English
ResponseLanguage(preference, detected) ==
    LET chosen == IF preference # NULL THEN preference ELSE detected
    IN  IF chosen = "mixed" THEN "en" ELSE chosen

\* a query that detects the language again on the translated search string
DetectAndTranslate_redetect(q, preference, ok) ==
    LET detected == detect_language(q)
        translated == translate_query_to_english(q, detected, ok)
    IN  [query_lang |-> detect_language(translated.text),
         response_lang |-> ResponseLanguage(preference, detected),
         search_query |-> translated.text,
         calls |-> <<"detect_language">> \o translated.calls
                   \o <<"detect_language">>,
         raised |-> translated.raised]

\* the first statements of query: detect the query language, choose the
\* response language, translate the query for the search
DetectAndTranslate(q, preference, ok) ==
    LET detected == detect_language(q)
        translated == translate_query_to_english(q, detected, ok)
    IN  [query_lang |-> detected,
         response_lang |-> ResponseLanguage(preference, detected),
         search_query |-> translated.text,
         calls |-> <<"detect_language">> \o translated.calls,
         raised |-> translated.raised]

query_detect ==
    /\ pc = "detect"
    /\ \E ok \in BOOLEAN :
         LET r == DetectAndTranslate(question, language_preference, ok)
         IN  /\ query_lang' = r.query_lang
             /\ response_lang' = r.response_lang
             /\ search_query' = r.search_query
             /\ trace' = trace \o r.calls
             /\ pc' = IF r.raised THEN "raised" ELSE "search"
             /\ error' = IF r.raised THEN "Exception" ELSE error
    /\ UNCHANGED <<service, op, question, language_preference, slot, model_id, docs,
                   relevant_docs, reranked, prompt, rag_response, result>>
    /\ UNCHANGED outside

rag_top_k == 60

\* 1. retrieve the candidates.  The vector store handle is created on first
\* use; a failure to create it, to embed the query or to query the index
\* leaves query as the exception of the store.
query_search ==
    /\ pc = "search"
    /\ \/ \E found \in SearchResults(rag_top_k) :
            /\ docs' = found
            /\ trace' = trace \o <<"search">>
            /\ pc' = "rerank"
            /\ UNCHANGED error
       \/ /\ docs' = docs
          /\ trace' = trace \o <<"search", "search_failed">>
          /\ error' = "VectorDBError"
          /\ pc' = "raised"
    /\ UNCHANGED <<service, op, question, language_preference, slot, model_id,
                   query_lang, response_lang, search_query, relevant_docs,
                   reranked, prompt, rag_response, result>>
    /\ UNCHANGED outside

\* a pipeline without the early return
NextStage_always_generate(kept) == "generate"

\* "if not relevant_docs": the early return or the generation
NextStage(kept) == IF kept = <<>> THEN "no_info" ELSE "generate"

\* 2. rerank and 3. filter
query_rerank ==
    /\ pc = "rerank"
    /\ \E predicted \in PredictOutcomes(docs) :
         LET r == Rerank(rag[slot].reranker, docs, predicted)
             kept == RelevanceFilter(r.relevant_docs, r.reranked)
         IN  /\ docs' = r.docs
             /\ relevant_docs' = kept
             /\ reranked' = r.reranked
             /\ trace' = trace \o r.calls
             /\ pc' = IF r.raised THEN "raised" ELSE NextStage(kept)
             /\ error' = IF r.raised THEN "Exception" ELSE error
    /\ UNCHANGED <<service, op, question, language_preference, slot, model_id,
                   query_lang, response_lang, search_query, prompt,
                   rag_response, result>>
    /\ UNCHANGED outside

\* an early return that enforces the query language instead
NoInfoMessage_query_language(q_lang, r_lang, identified, fail_at) ==
    ensure_response_language(no_info_msg, q_lang, identified, fail_at)

\* the message of the early return, passed through the language enforcer
NoInfoMessage(q_lang, r_lang, identified, fail_at) ==
    ensure_response_language(no_info_msg, r_lang, identified, fail_at)

RAGResponse(answer, sources, q_lang, confidence, model_used, was_reranked) ==
    [answer |-> answer, sources |-> sources, query_language |-> q_lang,
     confidence |-> confidence, model_used |-> model_used,
     reranked |-> was_reranked]

\* the early return when no doc is relevant
query_no_info ==
    /\ pc = "no_info"
    /\ \E identified \in IdentifyOutcomes(no_info_msg),
          fail_at \in FailPoints(no_info_msg) :
         LET final_msg == NoInfoMessage(query_lang, response_lang,
                                        identified, fail_at)
         IN  /\ trace' = trace \o final_msg.calls
             /\ IF final_msg.raised
                THEN /\ error' = "Exception"
                     /\ pc' = "raised"
                     /\ UNCHANGED rag_response
                ELSE /\ rag_response' =
                          RAGResponse(final_msg.text, <<>>, query_lang, "Low",
                                      rag[slot].llm_type, reranked)
                     /\ pc' = "returned"
                     /\ UNCHANGED error
    /\ UNCHANGED <<service, op, question, language_preference, slot, model_id,
                   query_lang, response_lang, search_query, docs,
                   relevant_docs, reranked, prompt, result>>
    /\ UNCHANGED outside

\* context, prompt, generation, language enforcement, sources, confidence
query_generate ==
    /\ pc = "generate"
    /\ prompt' = BuildPrompt(BuildContext(relevant_docs), question,
                             query_lang, response_lang)
    /\ \/ /\ trace' = trace \o <<"generate", "generate_failed">>
          /\ error' = "AIError"
          /\ pc' = "raised"
          /\ UNCHANGED rag_response
       \/ \E generated \in Answers :
          \E identified \in IdentifyOutcomes(generated),
             fail_at \in FailPoints(generated) :
            LET answer == ensure_response_language(generated, response_lang,
                                                   identified, fail_at)
            IN  /\ trace' = trace \o <<"generate">> \o answer.calls
                /\ IF answer.raised
                   THEN /\ error' = "AIError"
                        /\ pc' = "raised"
                        /\ UNCHANGED rag_response
                   ELSE /\ rag_response' =
                             RAGResponse(answer.text,
                                         extract_sources(relevant_docs),
                                         query_lang,
                                         calculate_confidence(relevant_docs),
                                         rag[slot].llm_type, reranked)
                        /\ pc' = "returned"
                        /\ UNCHANGED error
    /\ UNCHANGED <<service, op, question, language_preference, slot, model_id,
                   query_lang, response_lang, search_query, docs,
                   relevant_docs, reranked, result>>
    /\ UNCHANGED outside

(***************************************************************************)
(* src/ai/rag.py: RAGPipeline.rewrite_query                                *)
(***************************************************************************)
\* a conversation of alternating turns, every turn with its own content
Conversation ==
    <<UserMessage(Q_ms),
      AssistantMessage([body |-> "grounded", lang |-> "ms", paras |-> <<600>>], <<>>),
      UserMessage(Q_en),
      AssistantMessage([body |-> "grounded", lang |-> "en", paras |-> <<600>>], <<>>),
      UserMessage(Q_ar),
      AssistantMessage([body |-> "refusal", lang |-> "en", paras |-> <<229>>], <<>>),
      UserMessage(Q_mixed),
      AssistantMessage([body |-> "refusal", lang |-> "ms", paras |-> <<226>>], <<>>),
      UserMessage(T_ms)>>
Histories == {SubSeq(Conversation, 1, n) : n \in 0..MaxHistory}

\* what llm.generate can return for the rewrite prompt
Rewrites ==
    {<<>>, <<" ", "\n">>, <<" ", "o", "k", "\n">>, <<"a", "b", "c">>,
     <<" ">> \o T_ms \o <<"\n">>}

\* the whole history instead of its last turns
Recent_all(history) == history

\* history[-6:]
Recent(history) ==
    SubSeq(history, IF Len(history) > 6 THEN Len(history) - 5 ELSE 1,
           Len(history))

\* the lines of history_text
HistoryText(history) ==
    [i \in DOMAIN Recent(history) |->
        [role |-> IF Recent(history)[i].role = "user" THEN "User" ELSE "Assistant",
         content |-> Recent(history)[i].content]]

\* rewrite_query(question, history) with
\*   llm_raised: llm.generate raised; generated: the text it returned
\* The result is the returned question, the rendered history lines, the
\* external calls and whether the function raised.
RewriteQuery(q, history, llm_raised, generated) ==
    IF history = <<>>
    THEN [text |-> q, rendered |-> <<>>, calls |-> <<>>, raised |-> FALSE]
    ELSE IF llm_raised
    THEN [text |-> q, rendered |-> HistoryText(history),
          calls |-> <<"generate", "generate_failed">>, raised |-> FALSE]
    ELSE LET rewritten == Strip(generated)
         IN  [text |-> IF rewritten = <<>> \/ Len(rewritten) < 3 THEN q
                       ELSE rewritten,
              rendered |-> HistoryText(history),
              calls |-> <<"generate">>, raised |-> FALSE]

rewrite_query(q, history) ==
    /\ pc = "idle"
    /\ \E m \in DOMAIN rag :
         /\ rag[m].built
         /\ slot' = m
    /\ \E llm_raised \in BOOLEAN, generated \in Rewrites :
         /\ (llm_raised \/ history = <<>>) => generated = <<>>
         /\ LET r == RewriteQuery(q, history, llm_raised, generated)
            IN  /\ result' = [NoResult EXCEPT !.kind = "rewritten",
                                              !.text = r.text,
                                              !.generated = generated,
                                              !.rendered = r.rendered,
                                              !.context = history]
                /\ trace' = r.calls
                /\ pc' = IF r.raised THEN "raised" ELSE "returned"
                /\ error' = IF r.raised THEN "Exception" ELSE error
    /\ question' = q
    /\ op' = "rewrite"
    /\ UNCHANGED <<service, language_preference, model_id, query_lang,
                   response_lang, search_query, docs, relevant_docs,
                   reranked, prompt, rag_response>>
    /\ UNCHANGED outside

rewrite_return ==
    /\ op = "rewrite"
    /\ pc \in {"returned", "raised"}
    /\ pc' = "idle"
    /\ op' = NULL
    /\ ResetLocals
    /\ UNCHANGED service
    /\ UNCHANGED outside

(***************************************************************************)
(* src/api/main.py: POST /chat                                             *)
(***************************************************************************)
\* the parameters ChatService.ask accepts and the keywords chat passes
AskParameters == {"question", "language", "model"}
ChatKeywords == {"question", "language", "model", "chat_history"}

SessionInputs == {NULL, SessionId, "s2"}
ChatQuestions == Questions \cup {<<" ">>}

\* the messages of a stored session, None when there is no such session
get_chat(session_id) == IF session_id = SessionId THEN chat_history ELSE <<>>
HasSession(session_id) == session_id = SessionId

\* the handler up to the call of service.ask
chat(q, language, model, session_id) ==
    /\ pc = "idle"
    /\ op' = "chat"
    /\ question' = q
    /\ IF Len(q) = 0 \/ Strip(q) = <<>>
       THEN /\ result' = [NoResult EXCEPT !.kind = "http", !.status = 400,
                                          !.session = session_id]
            /\ error' = "HTTPException"
            /\ pc' = "raised"
            /\ UNCHANGED <<rag, language_preference, slot, model_id>>
       ELSE IF ~(ChatKeywords \subseteq AskParameters)
       THEN \* TypeError: ask() got an unexpected keyword argument
            /\ result' = [NoResult EXCEPT !.kind = "http", !.status = 500,
                                          !.session = session_id,
                                          !.context = get_chat(session_id)]
            /\ error' = "HTTPException"
            /\ pc' = "raised"
            /\ UNCHANGED <<rag, language_preference, slot, model_id>>
       ELSE /\ \E reranker_ok \in BOOLEAN, claude_ok \in BOOLEAN :
                 rag' = IF rag[SlotOf(model)].built THEN rag
                        ELSE [rag EXCEPT ![SlotOf(model)] =
                                NewPipeline(SlotOf(model), CLAUDE_AVAILABLE,
                                            reranker_ok, claude_ok)]
            /\ language_preference' = ParseLanguage(language)
            /\ slot' = SlotOf(model)
            /\ model_id' = model
            /\ result' = [NoResult EXCEPT !.kind = "http",
                                          !.session = session_id,
                                          !.context = get_chat(session_id)]
            /\ pc' = "detect"
            /\ UNCHANGED error
    /\ UNCHANGED <<CLAUDE_AVAILABLE, chat_history, query_lang, response_lang,
                   search_query, docs, relevant_docs, reranked, prompt,
                   rag_response, trace>>
    /\ UNCHANGED outside

\* the handler after service.ask: log to history and respond, or answer 500
chat_return ==
    /\ op = "chat"
    /\ pc \in {"returned", "raised"}
    /\ chat_history' =
         IF pc = "returned" /\ HasSession(result.session)
         THEN chat_history \o
                <<UserMessage(question),
                  AssistantMessage(rag_response.answer, rag_response.sources)>>
         ELSE chat_history
    /\ pc' = "idle"
    /\ op' = NULL
    /\ ResetLocals
    /\ UNCHANGED <<CLAUDE_AVAILABLE, rag>>
    /\ UNCHANGED outside


(***************************************************************************)
(* Specification                                                           *)
(***************************************************************************)
Next ==
    \/ \E q \in Questions, language \in LanguageInputs, model \in ModelInputs :
         ask(q, language, model)
    \/ query_detect
    \/ query_search
    \/ query_rerank
    \/ query_no_info
    \/ query_generate
    \/ ask_return
    \/ \E q \in Questions, history \in Histories : rewrite_query(q, history)
    \/ rewrite_return
    \/ \E q \in ChatQuestions, language \in LanguageInputs,
          model \in ModelInputs, session_id \in SessionInputs :
         chat(q, language, model, session_id)
    \/ chat_return

Spec == Init /\ [][Next]_vars


(***************************************************************************)
(* Properties                                                              *)
(***************************************************************************)
Has(e) == \E i \in DOMAIN trace : trace[i] = e
Count(e) == Cardinality({i \in DOMAIN trace : trace[i] = e})
FirstIndex(e) == CHOOSE i \in DOMAIN trace :
                     trace[i] = e /\ \A j \in 1..(i-1) : trace[j] # e

InQuery == op \in {"ask", "chat"}
\* query has returned a RAGResponse
Answered == InQuery /\ pc = "returned"
\* query has left by an exception
Failed == InQuery /\ pc = "raised" /\ Has("detect_language")
\* the Relevance Filter has run in this request
Filtered == /\ InQuery
            /\ pc \in {"no_info", "generate", "returned", "raised"}
            /\ Has("search") /\ ~Has("search_failed")

\* C1: when the Relevance Filter leaves no passage, the request builds no
\* prompt and never calls llm.generate.
C1_NoGenerationWithoutPassages ==
    (Filtered /\ relevant_docs = <<>>) =>
        /\ Count("generate") = 0
        /\ prompt = NoPrompt
        /\ pc # "generate"

\* every retrieved passage was below the threshold and the request returned
C1_Witness ==
    /\ Answered
    /\ docs # <<>>
    /\ relevant_docs = <<>>
    /\ Count("generate") = 0

\* C2: a response without sources has confidence Low and carries the fixed
\* insufficient-information message as the language enforcer returned it for
\* the response language: translated when the identified language differs
\* and the translation succeeded, untouched otherwise.
C2_EmptySourcesIsNoInfo ==
    (Answered /\ rag_response.sources = <<>>) =>
        /\ rag_response.confidence = "Low"
        /\ rag_response.answer.body = "no_info"
        /\ Has("identify")
        /\ (~Has("identify_failed") /\ response_lang # "en")
              => Has("translate_answer")
        /\ rag_response.answer =
             IF Has("translate_answer") /\ ~Has("translate_answer_failed")
             THEN [no_info_msg EXCEPT !.lang = response_lang]
             ELSE no_info_msg

\* an Arabic query whose insufficient-information message came back in Arabic
C2_Witness ==
    /\ Answered
    /\ rag_response.sources = <<>>
    /\ query_lang = "ar"
    /\ rag_response.answer = [no_info_msg EXCEPT !.lang = "ar"]

\* the filter as the specification states it, on the candidate list the
\* filter received: the reranked top K, or the scores at or above the threshold
Survives(i) ==
    IF reranked THEN i <= rag_rerank_top_k
    ELSE docs[i].score >= rag_relevance_threshold

\* C3: every cited source is built from a passage that survived the
\* Relevance Filter of the same request; there are no more citations than
\* survivors.
C3_SourcesAreSurvivors ==
    (Answered /\ rag_response.sources # <<>>) =>
        /\ \A k \in DOMAIN rag_response.sources :
             \E i \in DOMAIN docs :
                /\ Survives(i)
                /\ rag_response.sources[k] = SourceOf(docs[i])
        /\ Len(rag_response.sources)
             <= Cardinality({i \in DOMAIN docs : Survives(i)})

\* a response that cites some of the retrieved passages and not the others
C3_Witness ==
    /\ Answered
    /\ rag_response.sources # <<>>
    /\ Len(rag_response.sources) < Len(docs)
    /\ \E i \in DOMAIN docs :
         \A k \in DOMAIN rag_response.sources :
            rag_response.sources[k] # SourceOf(docs[i])


\* C4: a response whose answer is the scope-gate refusal carries no sources.
C4_RefusalHasNoSources ==
    (Answered /\ rag_response.answer.body = "refusal") =>
        rag_response.sources = <<>>

\* the kind of score a passage carries: the rerank block writes the logit
\* into score and into metadata.rerank_score together
ScoreKind(d) == IF d.metadata.rerank_score # NoScore THEN "rerank" ELSE "cosine"

\* C5: all source scores of a response are rerank scores when reranked is
\* true and cosine similarities when it is false.
C5_ScoresOfOneKind ==
    (Answered /\ rag_response.sources # <<>>) =>
        \A k \in DOMAIN rag_response.sources :
            /\ rag_response.sources[k].score = relevant_docs[k].score
            /\ ScoreKind(relevant_docs[k]) =
                 (IF rag_response.reranked THEN "rerank" ELSE "cosine")

\* C6: query leaves by an exception exactly when the vector search or the
\* generator failed; a generator failure is an AIError without a response,
\* and every other failure still ends in a RAGResponse.
C6_OnlySearchAndGenerationFail ==
    (InQuery /\ pc \in {"returned", "raised"} /\ Has("detect_language")) =>
        /\ (pc = "raised") <=> (Has("search_failed") \/ Has("generate_failed"))
        /\ Has("generate_failed") =>
              (error = "AIError" /\ rag_response = NoResponse)
        /\ (pc = "returned") => (error = NoError /\ rag_response # NoResponse)

\* a request that returned a response although the query translation, the
\* reranking and the answer translation all failed
C6_Witness ==
    /\ Answered
    /\ Has("translate_query_failed")
    /\ Has("rerank_failed")
    /\ Has("translate_answer_failed")
    /\ rag_response # NoResponse

\* C7: a chat request that supplies prior turns runs the Query Rewriter
\* before language detection and retrieval, searches on the rewritten
\* question and keeps the original question in the prompt.
C7_RewriteBeforeRetrieval ==
    (/\ op = "chat" /\ pc \in {"returned", "raised"}
     /\ result.status # 400 /\ result.context # <<>>) =>
        /\ pc = "returned"
        /\ Has("rewrite_query") /\ Has("detect_language") /\ Has("search")
        /\ FirstIndex("rewrite_query") < FirstIndex("detect_language")
        /\ FirstIndex("rewrite_query") < FirstIndex("search")
        /\ prompt.question \in {question, <<>>}

Min(a, b) == IF a < b THEN a ELSE b

\* C8: rewrite_query never raises; it returns the question without calling
\* the generator when there is no history, returns the question when the
\* generator raises or the stripped rewrite has fewer than 3 characters, and
\* renders the last 6 turns of the history at most.
C8_RewriteFallsBack ==
    (op = "rewrite" /\ pc \in {"returned", "raised"}) =>
        /\ pc = "returned" /\ error = NoError
        /\ (result.context = <<>>) => (result.text = question /\ trace = <<>>)
        /\ Has("generate_failed") => result.text = question
        /\ (Len(Strip(result.generated)) < 3) => result.text = question
        /\ result.text \in {question, Strip(result.generated)}
        /\ Count("generate") <= 1
        /\ Len(result.rendered) = Min(6, Len(result.context))
        /\ \A k \in DOMAIN result.rendered :
             result.rendered[k].content =
                result.context[Len(result.context) - Len(result.rendered) + k].content

\* a history of more than 6 turns and a rewrite of two characters
C8_Witness ==
    /\ op = "rewrite" /\ pc = "returned"
    /\ Len(result.context) > 6
    /\ Len(result.rendered) = 6
    /\ Len(Strip(result.generated)) = 2
    /\ result.text = question

\* C9: reranked is true exactly when the reranker was initialised, passages
\* were retrieved and the scoring completed; a pipeline whose reranker
\* initialisation failed keeps that state, answers with reranked false and
\* filters by the similarity threshold.
C9_RerankedIffScored ==
    /\ [](Answered =>
            /\ rag_response.reranked <=>
                 (/\ rag[slot].reranker /\ docs # <<>>
                  /\ Has("predict") /\ ~Has("rerank_failed"))
            /\ ~rag[slot].reranker =>
                 (/\ ~rag_response.reranked
                  /\ ~Has("predict")
                  /\ relevant_docs =
                       SelectSeq(docs, LAMBDA d :
                                   d.score >= rag_relevance_threshold)))
    /\ [][\A m \in DOMAIN rag : rag[m].built => rag'[m] = rag[m]]_vars

\* a pipeline without reranker that dropped a passage by the threshold
C9_Witness ==
    /\ Answered
    /\ ~rag[slot].reranker
    /\ ~rag_response.reranked
    /\ rag_response.sources # <<>>
    /\ Len(relevant_docs) < Len(docs)

\* the language of each sample question
ExpectedLanguage(q) ==
    CASE q = Q_en -> "en" [] q = Q_ms -> "ms" [] q = Q_ar -> "ar"
      [] q = Q_mixed -> "mixed"

\* C10: query_language is the language detected on the original question,
\* detected once and before the query is translated, whatever the
\* translated search string and the response-language override are.
C10_QueryLanguageOfQuestion ==
    Answered =>
        /\ rag_response.query_language = detect_language(question)
        /\ rag_response.query_language = ExpectedLanguage(question)
        /\ Count("detect_language") = 1
        /\ trace[1] = "detect_language"

\* an Arabic question searched in English and answered for a Malay override
C10_Witness ==
    /\ Answered
    /\ question = Q_ar
    /\ search_query = T_ar
    /\ language_preference = "ms"
    /\ rag_response.query_language = "ar"
    /\ detect_language(search_query) # "ar"

\* C11: translate_query_to_english never raises; an English query is
\* returned unchanged without a call of the translator, and a non-English
\* query whose translation fails is returned unmodified.
C11_TranslateQueryFallsBack ==
    (InQuery /\ Has("detect_language")) =>
        /\ ~(pc = "raised" /\ ~Has("search"))
        /\ (query_lang = "en") =>
              (search_query = question /\ ~Has("translate_query"))
        /\ (query_lang # "en") => Count("translate_query") = 1
        /\ Has("translate_query_failed") => search_query = question
        /\ (Has("translate_query") /\ ~Has("translate_query_failed")) =>
              search_query = GoogleTranslateToEnglish(question)

\* an Arabic question whose translation failed goes to the search as it is
C11_Witness ==
    /\ InQuery /\ pc = "search"
    /\ query_lang = "ar"
    /\ Has("translate_query_failed")
    /\ search_query = question

(***************************************************************************)
(* src/core/language.py: detect_language on its own                       *)
(***************************************************************************)
MaxArabic == 7        \* most Arabic letters in a sample text
MaxLatin == 9         \* most Latin letters next to them
LongWords == 20       \* words of a long sample text

Repeat(s, n) == [i \in 1..(n * Len(s)) |-> s[((i - 1) % Len(s)) + 1]]

\* a word that is not a marker and contains none
Filler == <<"o", "n", " ">>
\* the marker and one more word
ShortText(marker) == marker \o <<" ">> \o <<"s","u","k","u","k">>
\* the marker as the last word of a long text
LongText(marker) == Repeat(Filler, LongWords - 1) \o marker

\* Latin parts of the sample texts: runs of one letter, and "riba on zzz"
LatinBodies ==
    {Repeat(<<"x">>, l) : l \in 0..MaxLatin} \cup
    {<<"r","i","b","a"," ","o","n"," ","z","z","z">>}
RatioTexts ==
    {Repeat(<<"alef">>, a) \o <<" ">> \o body \o <<" ", "1", "?">> :
        a \in 0..MaxArabic, body \in LatinBodies}
BlankTexts == {<<>>, <<" ">>, <<" ", "\n", "\t">>, <<"1", "2", " ", "?">>}

Texts ==
    {ShortText(w) : w \in malay_markers} \cup
    {LongText(w) : w \in malay_markers} \cup RatioTexts \cup BlankTexts
    \cup Questions

\* detect_language(text) is called and returns
call_detect_language(text) ==
    /\ pc = "idle"
    /\ op' = "detect_language"
    /\ question' = text
    /\ query_lang' = detect_language(text)
    /\ pc' = "returned"
    /\ UNCHANGED <<service, language_preference, slot, model_id, response_lang,
                   search_query, docs, relevant_docs, reranked, prompt,
                   rag_response, error, result, trace>>
    /\ UNCHANGED outside

return_detect_language ==
    /\ op = "detect_language"
    /\ pc = "returned"
    /\ pc' = "idle"
    /\ op' = NULL
    /\ ResetLocals
    /\ UNCHANGED service
    /\ UNCHANGED outside

NextLanguage ==
    \/ \E text \in Texts : call_detect_language(text)
    \/ return_detect_language

SpecLanguage == Init /\ [][NextLanguage]_vars

\* detect_language has returned query_lang for the text in question
Detected == op = "detect_language" /\ pc = "returned"

\* the words of a text that are marker words
WordStarts(t) ==
    {i \in DOMAIN t : t[i] \notin Whitespace /\ (i = 1 \/ t[i-1] \in Whitespace)}
WordEnd(t, i) ==
    CHOOSE j \in i..Len(t) :
        /\ \A k \in i..j : t[k] \notin Whitespace
        /\ (j = Len(t) \/ t[j+1] \in Whitespace)
MarkerWords(t) ==
    {i \in WordStarts(t) : Lower(SubSeq(t, i, WordEnd(t, i))) \in malay_markers}

ArabicShare(t) ==
    [a |-> Cardinality({i \in DOMAIN t : t[i] \in ArabicBlock}),
     l |-> Cardinality({i \in DOMAIN t : t[i] \in LatinLetters})]

\* C12: a text of at most 5 words with exactly one marker word is Malay, and
\* a longer text whose only marker word is that one is not Malay, for every
\* marker word of the list.
C12_SingleMarkerWord ==
    (/\ Detected
     /\ Cardinality(MarkerWords(question)) = 1
     /\ ArabicShare(question).a * 10 <=
          ArabicShare(question).a + ArabicShare(question).l) =>
        IF Cardinality(WordStarts(question)) <= 5
        THEN query_lang = "ms"
        ELSE query_lang # "ms"

\* C13: with a Arabic-block characters and l Latin letters in the text,
\* detect_language returns English when a + l = 0, Arabic when
\* a/(a+l) > 0.6, Mixed when 0.1 < a/(a+l) <= 0.6, and decides between Malay
\* and English when a/(a+l) <= 0.1.
C13_ArabicRatio ==
    Detected =>
        LET a == ArabicShare(question).a
            total == ArabicShare(question).a + ArabicShare(question).l
        IN  /\ (total = 0) => query_lang = "en"
            /\ (total > 0 /\ 10 * a > 6 * total) => query_lang = "ar"
            /\ (total > 0 /\ 10 * a > total /\ 10 * a <= 6 * total) =>
                  query_lang = "mixed"
            /\ (total > 0 /\ 10 * a <= total) => query_lang \in {"ms", "en"}
            /\ (total > 0 /\ 10 * a <= total /\ MarkerWords(question) = {}
                  /\ question \in RatioTexts) => query_lang = "en"

\* a text whose Arabic ratio is exactly 0.6
C13_Witness ==
    /\ Detected
    /\ ArabicShare(question) = [a |-> 3, l |-> 2]
    /\ query_lang = "mixed"

ConfidenceRank(label) ==
    CASE label = "Low" -> 1 [] label = "Medium" -> 2 [] label = "High" -> 3

\* C14: the confidence of a response is High for 4 or more surviving
\* passages, Medium for 2 or 3 and Low for 0 or 1, the number of surviving
\* passages being the length of sources; the label never decreases when the
\* number of passages grows.
C14_ConfidenceByCount ==
    /\ Answered =>
         /\ Len(rag_response.sources) = Len(relevant_docs)
         /\ rag_response.confidence =
              (CASE Len(rag_response.sources) >= 4 -> "High"
                 [] Len(rag_response.sources) \in {2, 3} -> "Medium"
                 [] Len(rag_response.sources) \in {0, 1} -> "Low")
    /\ \A m \in 0..(MaxDocs + 1) : \A n \in m..(MaxDocs + 1) :
         ConfidenceRank(calculate_confidence([i \in 1..m |-> P_A])) <=
         ConfidenceRank(calculate_confidence([i \in 1..n |-> P_A]))

\* a response built from four surviving passages
C14_Witness ==
    /\ Answered
    /\ Len(relevant_docs) = 4
    /\ Len(rag_response.sources) = 4
    /\ rag_response.confidence = "High"

(***************************************************************************)
(* src/services/chat.py, src/ai/rag.py: the choice of the backend          *)
(***************************************************************************)
\* model identifiers a caller may pass when both backends are in play
BackendInputs == {LLM_OLLAMA, LLM_CLAUDE, "gpt-4"}
BackendQuestions == {Q_en}

\* the service starts with or without an importable Claude client module
InitBackend ==
    /\ CLAUDE_AVAILABLE \in BOOLEAN
    /\ rag = [m \in {LLM_OLLAMA, LLM_CLAUDE} |-> NoPipeline]
    /\ chat_history = StoredMessages
    /\ pc = "idle"
    /\ op = NULL
    /\ ClearLocals
    /\ IdleOutside

NextBackend ==
    \/ \E q \in BackendQuestions, model \in BackendInputs : ask(q, NULL, model)
    \/ query_detect
    \/ query_search
    \/ query_rerank
    \/ query_no_info
    \/ query_generate
    \/ ask_return

SpecBackend == InitBackend /\ [][NextBackend]_vars

\* the identifier of the client held in self.llm
BackendOf(llm) == IF llm = "ClaudeLLM" THEN LLM_CLAUDE ELSE LLM_OLLAMA

\* C15: model_used of a response names the client that generated the
\* answer: "claude" only for the Claude client, "ollama" only for the Ollama
\* client.
C15_ModelUsedIsGenerator ==
    (Answered /\ Has("generate")) =>
        rag_response.model_used = BackendOf(rag[slot].llm)

\* C16: the model identifier passed to ChatService.ask comes back unchanged
\* as model_used of the response.
C16_ModelIdEchoed ==
    (Answered /\ op = "ask") => rag_response.model_used = model_id

\* the passage of the index a retrieved doc came from
IndexedAs(d) == {p \in Passages : p.text = d.text /\ p.metadata.source = d.metadata.source}

\* C17: after a rerank every passage still carries the similarity score the
\* vector index gave it, and the rerank score in a field of its own.
C17_SimilarityScoreKept ==
    (Filtered /\ reranked) =>
        \A i \in DOMAIN docs :
            /\ docs[i].metadata.rerank_score # NoScore
            /\ \E p \in IndexedAs(docs[i]) : docs[i].score = p.score

\* C18: no two entries of sources cite the same passage, that is the same
\* file, page and snippet.
C18_SourcesDeduplicated ==
    Answered =>
        \A i \in DOMAIN rag_response.sources :
        \A j \in DOMAIN rag_response.sources :
            (i # j) =>
               <<rag_response.sources[i].filename, rag_response.sources[i].page,
                 rag_response.sources[i].snippet>> #
               <<rag_response.sources[j].filename, rag_response.sources[j].page,
                 rag_response.sources[j].snippet>>

\* how often a passage text occurs in a list of docs
Occurrences(list, text) == Cardinality({i \in DOMAIN list : list[i].text = text})

\* C19: a rerank that succeeds leaves as survivors the rag_rerank_top_k
\* retrieved passages with the highest rerank scores (all of them when fewer
\* were retrieved), in non-increasing order of rerank score.
C19_TopKByRerankScore ==
    [][(pc = "rerank" /\ reranked') =>
         LET kept == relevant_docs'
             k == Min(rag_rerank_top_k, Len(docs))
         IN  /\ Len(kept) = k
             /\ Len(docs') = Len(docs)
             /\ \A p \in Passages :
                  Occurrences(docs', p.text) = Occurrences(docs, p.text)
             /\ \A i \in DOMAIN docs' :
                  docs'[i].score = docs'[i].metadata.rerank_score
             /\ \A i \in DOMAIN kept : kept[i] = docs'[i]
             /\ \A i \in 1..(Len(kept) - 1) : kept[i].score >= kept[i+1].score
             /\ \A i \in DOMAIN kept : \A j \in (k + 1)..Len(docs') :
                  kept[i].score >= docs'[j].score
      ]_vars

\* more passages retrieved than kept, reordered by the rerank
C19_Witness ==
    /\ Filtered /\ reranked
    /\ Len(docs) > rag_rerank_top_k
    /\ Len(relevant_docs) = rag_rerank_top_k
    /\ docs[Len(docs)].score < relevant_docs[1].score
    /\ \E p \in IndexedAs(docs[1]), q \in IndexedAs(docs[Len(docs)]) :
         p.score < q.score

(***************************************************************************)
(* src/ai/rag.py: the relevance filter of query on its own                 *)
(***************************************************************************)
MaxFilterDocs == 3    \* longest list handed to the filter

\* a doc without the key 'score'
Unscored == [text |-> P_B.text, metadata |-> P_B.metadata]
\* docs that carry the logits of a rerank, one of them negative
Scored(p, logit) == [p EXCEPT !.score = logit, !.metadata.rerank_score = logit]
FilterDocs == Passages \cup {Unscored, Scored(P_A, 0 - 300), Scored(P_C, 30)}
FilterInputs == UNION {[1..k -> FilterDocs] : k \in 0..MaxFilterDocs}

\* the statements of query between the rerank block and the early return
relevance_filter(candidates, was_reranked) ==
    /\ pc = "idle"
    /\ op' = "filter"
    /\ docs' = candidates
    /\ reranked' = was_reranked
    /\ relevant_docs' = RelevanceFilter(candidates, was_reranked)
    /\ pc' = "returned"
    /\ UNCHANGED <<service, question, language_preference, slot, model_id,
                   query_lang, response_lang, search_query, prompt,
                   rag_response, error, result, trace>>
    /\ UNCHANGED outside

return_relevance_filter ==
    /\ op = "filter"
    /\ pc = "returned"
    /\ pc' = "idle"
    /\ op' = NULL
    /\ ResetLocals
    /\ UNCHANGED service
    /\ UNCHANGED outside

NextFilter ==
    \/ \E candidates \in FilterInputs, was_reranked \in BOOLEAN :
         relevance_filter(candidates, was_reranked)
    \/ return_relevance_filter

SpecFilter == Init /\ [][NextFilter]_vars

\* the k-th smallest element of a set of indices
KthOf(S, k) == CHOOSE i \in S : Cardinality({j \in S : j <= i}) = k

C21_ResponseLanguage ==
    (InQuery /\ Has("detect_language")) =>
        LET chosen == IF language_preference # NULL THEN language_preference
                      ELSE detect_language(question)
        IN  /\ response_lang = (IF chosen = "mixed" THEN "en" ELSE chosen)
            /\ response_lang \in {"ar", "en", "ms"}
            /\ ~(pc = "raised" /\ ~Has("search"))
            /\ (prompt # NoPrompt) =>
                  prompt.response_language = display_name(response_lang)
            /\ (Answered /\ Has("translate_answer")
                  /\ ~Has("translate_answer_failed")) =>
                  rag_response.answer.lang = response_lang
            /\ (Answered /\ Has("identify") /\ ~Has("identify_failed")
                  /\ ~Has("translate_answer")) =>
                  rag_response.answer.lang = response_lang

\* a Malay question answered in English because the override is Mixed
C21_Witness ==
    /\ Answered
    /\ language_preference = "mixed"
    /\ query_lang = "ms"
    /\ response_lang = "en"
    /\ prompt.response_language = "English"
    /\ Has("translate_answer") /\ ~Has("translate_answer_failed")
    /\ rag_response.answer.lang = "en"

(***************************************************************************)
(* src/ai/translator.py: ensure_response_language on its own, applied to   *)
(* an answer and then to what it returned                                  *)
(***************************************************************************)
\* paragraph lengths of the answers handed to the enforcer: a few characters,
\* whitespace only, an ordinary answer, exactly the limit, one paragraph over
\* the limit, and long answers of several paragraphs
EnforcerParas ==
    {<<5>>, <<0, 0>>, <<600>>, <<max_chars>>, <<max_chars + 500>>,
     <<3000, 0, 2000>>, <<max_chars + 100, 100>>}
EnforcerTexts ==
    {[body |-> "grounded", lang |-> l, paras |-> p] :
        l \in {"en", "ms"}, p \in EnforcerParas}
EnforcerTargets == {"ar", "en", "ms"}

\* ensure_response_language(response, target_language)
call_ensure_response_language ==
    /\ response = NoText
    /\ \E r \in EnforcerTexts, t \in EnforcerTargets :
         \E identified \in IdentifyOutcomes(r), fail_at \in FailPoints(r) :
            /\ response' = r
            /\ target_language' = t
            /\ enforced' =
                 [identified |-> identified, fail_at |-> fail_at,
                  returned |-> ensure_response_language(r, t, identified, fail_at)]
    /\ UNCHANGED <<enforced_again, request, concurrent, ingestion>>

\* ensure_response_language(returned, target_language): the same target,
\* applied to the text the first application returned
call_ensure_response_language_again ==
    /\ enforced # NoCall
    /\ enforced_again = NoCall
    /\ LET r == enforced.returned.text
       IN  \E identified \in IdentifyOutcomes(r), fail_at \in FailPoints(r) :
              enforced_again' =
                 [identified |-> identified, fail_at |-> fail_at,
                  returned |-> ensure_response_language(r, target_language,
                                                        identified, fail_at)]
    /\ UNCHANGED <<response, target_language, enforced, request, concurrent,
                   ingestion>>

\* the caller drops the texts
return_ensure_response_language ==
    /\ enforced # NoCall
    /\ response' = NoText
    /\ target_language' = NULL
    /\ enforced' = NoCall
    /\ enforced_again' = NoCall
    /\ UNCHANGED <<request, concurrent, ingestion>>

NextEnforcer ==
    \/ call_ensure_response_language
    \/ call_ensure_response_language_again
    \/ return_ensure_response_language

SpecEnforcer == Init /\ [][NextEnforcer]_vars

\* the code langdetect gave for a text, as the enforcer compares it
Converged(call, text) ==
    /\ CallsLangdetect(text)
    /\ call.identified # LangDetectException
    /\ \/ call.identified = LANGUAGE_TO_CODE(target_language)
       \/ LANGUAGE_TO_CODE(target_language) = "ms" /\ call.identified = "id"

\* C22: once the enforcer's result is identified as being in the target
\* language (Malay or Indonesian when the target is Malay), applying the
\* enforcer to that result with the same target returns it unchanged and
\* makes no translation call.
C22_EnforcerIdempotent ==
    (enforced_again # NoCall
        /\ Converged(enforced_again, enforced.returned.text)) =>
        /\ enforced_again.returned.text = enforced.returned.text
        /\ \A i \in DOMAIN enforced_again.returned.calls :
              enforced_again.returned.calls[i] # "translate_answer"
        /\ enforced_again.returned.sent = <<>>
        /\ ~enforced_again.returned.raised

\* a Malay answer that was translated from English and is then identified
\* as Indonesian
C22_Witness ==
    /\ enforced_again # NoCall
    /\ target_language = "ms"
    /\ response.lang = "en"
    /\ enforced.returned.text.lang = "ms"
    /\ enforced.returned.sent # <<>>
    /\ enforced_again.identified = "id"
    /\ enforced_again.returned.text = enforced.returned.text

\* the function returns this text when nothing fails
Translated(text) == GoogleTranslate(text, LANGUAGE_TO_CODE(target_language))

\* C23: when a translation call fails, at the first call or after some
\* paragraphs were translated, the enforcer returns the original response
\* unchanged and raises nothing; whatever happens, what it returns is the
\* original response or its complete translation.
C23_FailureReturnsOriginal ==
    (enforced # NoCall) =>
        LET out == enforced.returned
            failed == \E i \in DOMAIN out.calls :
                         out.calls[i] = "translate_answer_failed"
        IN  /\ ~out.raised
            /\ failed => out.text = response
            /\ out.text \in {response, Translated(response)}
            /\ (enforced.fail_at > 0 /\ out.sent # <<>>) => failed

\* the second paragraph of a long answer fails after the first was translated
C23_Witness ==
    /\ enforced # NoCall
    /\ TextLen(response) > max_chars
    /\ enforced.fail_at = 2
    /\ Len(enforced.returned.sent) = 2
    /\ enforced.returned.calls[Len(enforced.returned.calls)]
          = "translate_answer_failed"
    /\ enforced.returned.text = response
    /\ response.lang # LANGUAGE_TO_CODE(target_language)

\* C28: no single call to the translator receives more than max_chars
\* characters, whatever the paragraph lengths of the answer.
C28_NoCallOverLimit ==
    (enforced # NoCall) =>
        \A i \in DOMAIN enforced.returned.sent :
            enforced.returned.sent[i] <= max_chars

\* the stage of query() an external call belongs to
StageOf(e) ==
    CASE e = "detect_language" -> 1
      [] e \in {"translate_query", "translate_query_failed"} -> 2
      [] e \in {"search", "search_failed"} -> 3
      [] e \in {"predict", "rerank_failed"} -> 4
      [] e \in {"generate", "generate_failed"} -> 6
      [] e \in {"identify", "identify_failed", "translate_answer",
                "translate_answer_failed"} -> 7

\* C24: the stages of one query run in the fixed order detect, translate
\* query, search, rerank, filter, generate, enforce; the language detection,
\* the search, the reranker scoring and the generation are each called at
\* most once per query, and a failed stage is not tried again.
C24_StagesInOrderOnce ==
    (InQuery /\ pc # "idle") =>
        /\ \A i, j \in DOMAIN trace :
              i < j => StageOf(trace[i]) <= StageOf(trace[j])
        /\ \A e \in {"detect_language", "translate_query", "search", "predict",
                     "generate", "identify"} : Count(e) <= 1
        /\ \A e \in {"translate_query_failed", "search_failed", "rerank_failed",
                     "generate_failed", "translate_answer_failed"} :
              Has(e) => Count(e) = 1
        /\ (pc \in {"search", "rerank", "no_info", "generate"})
              => Has("detect_language")
        /\ (pc \in {"rerank", "no_info", "generate"}) => Has("search")
        /\ Has("generate") => (Filtered /\ relevant_docs # <<>>)

\* a Malay question answered through every stage
C24_Witness ==
    /\ Answered
    /\ \A e \in {"detect_language", "translate_query", "search", "predict",
                 "generate", "identify", "translate_answer"} : Count(e) = 1
    /\ FirstIndex("detect_language") < FirstIndex("translate_query")
    /\ FirstIndex("translate_query") < FirstIndex("search")
    /\ FirstIndex("search") < FirstIndex("predict")
    /\ FirstIndex("predict") < FirstIndex("generate")
    /\ FirstIndex("generate") < FirstIndex("translate_answer")

\* the similarity score the vector index gave a retrieved doc
Similarity(d) == (CHOOSE p \in IndexedAs(d) : TRUE).score

\* C26: when the reranker is there but scoring fails, at the first score or
\* after some scores were written, the query goes on with reranked false,
\* the candidates in their retrieval order, and the threshold applied to the
\* similarity scores of the vector index.
C26_RerankFailureFallsBack ==
    (Filtered /\ Has("rerank_failed")) =>
        /\ ~reranked
        /\ ~(pc = "raised" /\ ~Has("generate"))
        /\ \A i \in 1..(Len(docs) - 1) :
              Similarity(docs[i]) >= Similarity(docs[i + 1])
        /\ [k \in DOMAIN relevant_docs |-> relevant_docs[k].text] =
              [k \in DOMAIN SelectSeq(docs,
                     LAMBDA d : Similarity(d) >= rag_relevance_threshold) |->
                  SelectSeq(docs,
                     LAMBDA d : Similarity(d) >= rag_relevance_threshold)[k].text]

\* C27: the context labels are numbered 1..n in the order of the filtered
\* passages, and label i describes the passage of sources[i]: the same
\* source name and the same cleaned title or file name.
C27_LabelsMatchSources ==
    (InQuery /\ prompt # NoPrompt) =>
        /\ Len(prompt.context) = Len(relevant_docs)
        /\ \A i \in DOMAIN prompt.context :
              /\ prompt.context[i].number = i
              /\ prompt.context[i].text = relevant_docs[i].text
        /\ Answered =>
              /\ Len(rag_response.sources) = Len(prompt.context)
              /\ \A i \in DOMAIN prompt.context :
                    /\ prompt.context[i].source = rag_response.sources[i].source
                    /\ prompt.context[i].display_title
                          = rag_response.sources[i].file

\* two passages of different sources, one named by its cleaned title and
\* one by its cleaned file name, after a rerank that reordered them
C27_Witness ==
    /\ Answered
    /\ reranked
    /\ Len(rag_response.sources) = 2
    /\ rag_response.sources[1].source = "AAOIFI"
    /\ rag_response.sources[2].source = "BNM"
    /\ prompt.context[1].display_title = <<"t", ".", "p", "d", "f">>
    /\ prompt.context[2].display_title = <<"R", "i", "b", "a">>

(***************************************************************************)
(* src/services/ingestion.py, src/services/scheduler.py,                   *)
(* src/services/history.py: documents ingested by the scheduler's job      *)
(* thread and by the /ingest/url handler                                   *)
(***************************************************************************)
MaxLogged == 3      \* log_ingestion calls after which no new ingest starts

\* the entry log_ingestion writes
LogEntry(type, filename, status) ==
    [type |-> type, filename |-> filename, status |-> status]

\* what the caller of _process_document logs once it has returned a result:
\* ingest_url logs a success entry of its own, _ingest_documents nothing
LoggedByCaller(t, f) ==
    IF t = "api" THEN <<LogEntry("url", f, "success")>> ELSE <<>>

\* what the caller logs when _process_document (or the download) raises
LoggedOnException(t, f) ==
    IF t = "api" THEN <<LogEntry("url", f, "failed")>>
    ELSE <<LogEntry("auto_update", f, "failed")>>

\* the worker goes on to log_ingestion, or is done when nothing is to log
AfterProcessing(w, entries, status) ==
    [w EXCEPT !.pc = IF entries = <<>> THEN "idle"
                     ELSE IF use_supabase THEN "log_repo" ELSE "log_load",
              !.pending = entries, !.result = status,
              !.doc_id = NULL]

PendingEntries ==
    LET n(t) == Len(workers[t].pending)
    IN  n("scheduler") + n("api")

\* a call starts: _ingest_documents reaches the next document of the job
\* (scheduler), or a request for the URL arrives (api).  A call that will
\* write a history entry starts only while the history is short.
ingest(t, f) ==
    /\ workers[t].pc = "idle"
    /\ \/ logged + PendingEntries < MaxLogged
       \/ t = "scheduler" /\ use_supabase /\ documents[f] = "processing"
    /\ workers' = [workers EXCEPT ![t] =
                      [IdleWorker EXCEPT !.pc = "check", !.file = f]]
    /\ UNCHANGED <<use_supabase, documents, ingestion_history, logged>>
    /\ UNCHANGED <<request, enforcer, concurrent>>

\* _process_document up to the record check (lines 152-192); downloaded is
\* the outcome of scraper.scrape_from_url for the api
process_document(t, downloaded) ==
    /\ workers[t].pc = "check"
    /\ LET w == workers[t]
           f == w.file
       IN  IF t = "api" /\ ~downloaded
           THEN workers' = [workers EXCEPT ![t] =
                   AfterProcessing(w, LoggedOnException(t, f), "raised")]
           ELSE IF use_supabase /\ documents[f] = "indexed"
           THEN workers' = [workers EXCEPT ![t] =
                   AfterProcessing(w, <<LogEntry("ingest", f, "skipped")>>
                                      \o LoggedByCaller(t, f), "skipped")]
           ELSE IF use_supabase /\ documents[f] = "processing"
           THEN workers' = [workers EXCEPT ![t] =
                   AfterProcessing(w, LoggedByCaller(t, f), "skipped")]
           ELSE workers' = [workers EXCEPT ![t].pc =
                   IF use_supabase THEN "create" ELSE "extract"]
    /\ UNCHANGED <<use_supabase, documents, ingestion_history, logged>>
    /\ UNCHANGED <<request, enforcer, concurrent>>

\* lines 195-237: upload, then update or create the record with status
\* "processing"; any exception is logged as a warning and leaves doc_id None
create_record(t) ==
    /\ workers[t].pc = "create"
    /\ \E ok \in BOOLEAN :
         IF ok
         THEN /\ documents' = [documents EXCEPT ![workers[t].file] = "processing"]
              /\ workers' = [workers EXCEPT ![t].pc = "extract",
                                            ![t].doc_id = workers[t].file]
         ELSE /\ documents' = documents
              /\ workers' = [workers EXCEPT ![t].pc = "extract"]
    /\ UNCHANGED <<use_supabase, ingestion_history, logged>>
    /\ UNCHANGED <<request, enforcer, concurrent>>

ExtractionOutcomes == {"text", "empty", "raised"}

\* lines 239-265: extract_pdf and the empty-text return
extract(t) ==
    /\ workers[t].pc = "extract"
    /\ LET w == workers[t]
           f == w.file
       IN  \E outcome \in ExtractionOutcomes :
              CASE outcome = "raised" ->
                     /\ workers' = [workers EXCEPT ![t] =
                           AfterProcessing(w, LoggedOnException(t, f), "raised")]
                     /\ documents' = documents
                [] outcome = "empty" ->
                     /\ documents' = IF w.doc_id # NULL /\ use_supabase
                                     THEN [documents EXCEPT ![w.doc_id] = "failed"]
                                     ELSE documents
                     /\ workers' = [workers EXCEPT ![t] =
                           AfterProcessing(w, <<LogEntry("ingest", f, "failed")>>
                                              \o LoggedByCaller(t, f), "error")]
                [] outcome = "text" ->
                     /\ workers' = [workers EXCEPT ![t].pc = "index"]
                     /\ documents' = documents
    /\ UNCHANGED <<use_supabase, ingestion_history, logged>>
    /\ UNCHANGED <<request, enforcer, concurrent>>

\* lines 267-329: chunk, vector_store.add_chunks, set the record to
\* "indexed", log the success
index(t) ==
    /\ workers[t].pc = "index"
    /\ LET w == workers[t]
           f == w.file
       IN  \E ok \in BOOLEAN :
              IF ok
              THEN /\ documents' = IF w.doc_id # NULL /\ use_supabase
                                   THEN [documents EXCEPT ![w.doc_id] = "indexed"]
                                   ELSE documents
                   /\ workers' = [workers EXCEPT ![t] =
                         AfterProcessing(w, <<LogEntry("ingest", f, "Indexed")>>
                                            \o LoggedByCaller(t, f), "success")]
              ELSE /\ documents' = documents
                   /\ workers' = [workers EXCEPT ![t] =
                         AfterProcessing(w, LoggedOnException(t, f), "raised")]
    /\ UNCHANGED <<use_supabase, ingestion_history, logged>>
    /\ UNCHANGED <<request, enforcer, concurrent>>

\* the worker after one log_ingestion call has returned
AfterLogging(w) ==
    [w EXCEPT !.pending = Tail(w.pending),
              !.history = <<>>,
              !.pc = IF Len(w.pending) = 1 THEN "idle"
                     ELSE IF use_supabase THEN "log_repo" ELSE "log_load"]

\* log_ingestion with the database: one insert
log_repo(t) ==
    /\ workers[t].pc = "log_repo"
    /\ ingestion_history' = Append(ingestion_history, Head(workers[t].pending))
    /\ logged' = logged + 1
    /\ workers' = [workers EXCEPT ![t] = AfterLogging(workers[t])]
    /\ UNCHANGED <<use_supabase, documents>>
    /\ UNCHANGED <<request, enforcer, concurrent>>

\* log_ingestion with JSON files: history = self._load_json(file)
log_load(t) ==
    /\ workers[t].pc = "log_load"
    /\ workers' = [workers EXCEPT ![t].history = ingestion_history,
                                  ![t].pc = "log_save"]
    /\ UNCHANGED <<use_supabase, documents, ingestion_history, logged>>
    /\ UNCHANGED <<request, enforcer, concurrent>>

\* history.append(log_entry); self._save_json(file, history)
log_save(t) ==
    /\ workers[t].pc = "log_save"
    /\ ingestion_history' = Append(workers[t].history, Head(workers[t].pending))
    /\ logged' = logged + 1
    /\ workers' = [workers EXCEPT ![t] = AfterLogging(workers[t])]
    /\ UNCHANGED <<use_supabase, documents>>
    /\ UNCHANGED <<request, enforcer, concurrent>>

\* the service starts with or without the database configured
InitIngestion ==
    /\ CLAUDE_AVAILABLE = TRUE
    /\ rag = [m \in {LLM_OLLAMA, LLM_CLAUDE} |-> NoPipeline]
    /\ chat_history = StoredMessages
    /\ pc = "idle"
    /\ op = NULL
    /\ ClearLocals
    /\ IdleEnforcer
    /\ IdleConcurrent
    /\ use_supabase \in BOOLEAN
    /\ IdleIngestion

\* the steps of a call that is under way
Running(t) ==
    \/ \E downloaded \in BOOLEAN : process_document(t, downloaded)
    \/ create_record(t)
    \/ extract(t)
    \/ index(t)
    \/ log_repo(t)
    \/ log_load(t)
    \/ log_save(t)

NextIngestion ==
    \/ \E t \in Threads, f \in Files : ingest(t, f)
    \/ \E t \in Threads, downloaded \in BOOLEAN : process_document(t, downloaded)
    \/ \E t \in Threads : create_record(t)
    \/ \E t \in Threads : extract(t)
    \/ \E t \in Threads : index(t)
    \/ \E t \in Threads : log_repo(t)
    \/ \E t \in Threads : log_load(t)
    \/ \E t \in Threads : log_save(t)

SpecIngestion == InitIngestion /\ [][NextIngestion]_vars

\* a thread that is inside a call goes on until the call returns, and the
\* scheduler's interval job comes back to every file
SpecIngestionFair ==
    /\ SpecIngestion
    /\ \A t \in Threads : WF_vars(Running(t))
    /\ \A f \in Files : WF_vars(ingest("scheduler", f))

\* C29: with the database configured, a document record set to "processing"
\* eventually becomes "indexed" or "failed", also when extraction or
\* indexing raises; no record stays "processing" forever.
C29_ProcessingEnds ==
    \A f \in Files :
        (use_supabase /\ documents[f] = "processing")
            ~> (documents[f] \in {"indexed", "failed"})

\* C30: with JSON-file storage every log_ingestion call that has returned
\* has exactly one entry in the ingestion history file, whatever the
\* interleaving of the scheduler thread and the request handler.
C30_OneEntryPerCall ==
    (~use_supabase) => Len(ingestion_history) = logged

(***************************************************************************)
(* src/services/chat.py, src/ai/rag.py, src/vector_db/pinecone_store.py:   *)
(* two ask() calls served at the same time by one ChatService.  The dicts  *)
(* a search returns live in the heap; the lists of a call hold references. *)
(***************************************************************************)
MaxConcurrentDocs == 2     \* matches a concurrent search returns at most

QuestionOf(c) == IF c = 1 THEN Q_en ELSE Q_ms
ConcurrentResults ==
    {s \in UNION {[1..k -> {P_A, P_C}] : k \in 0..MaxConcurrentDocs} :
        IsSortedByScore(s)}
ConcurrentAnswer == [body |-> "grounded", lang |-> "en", paras |-> <<600>>]

\* _get_rag: "if self._rag_ollama is None"
get_rag(c) ==
    /\ requests[c].pc = "idle"
    /\ requests' = [requests EXCEPT
                      ![c].question = QuestionOf(c),
                      ![c].pc = IF rag[LLM_OLLAMA].built THEN "get_rag_return"
                                ELSE "get_rag_create"]
    /\ UNCHANGED <<CLAUDE_AVAILABLE, rag, chat_history, pc, op, locals, heap>>
    /\ UNCHANGED <<enforcer, ingestion>>

\* _get_rag: "self._rag_ollama = RAGPipeline(...)"
get_rag_create(c) ==
    /\ requests[c].pc = "get_rag_create"
    /\ \E reranker_ok \in BOOLEAN :
          rag' = [rag EXCEPT ![LLM_OLLAMA] =
                    NewPipeline(LLM_OLLAMA, CLAUDE_AVAILABLE, reranker_ok, TRUE)]
    /\ requests' = [requests EXCEPT ![c].pc = "get_rag_return"]
    /\ UNCHANGED <<CLAUDE_AVAILABLE, chat_history, pc, op, locals, heap>>
    /\ UNCHANGED <<enforcer, ingestion>>

\* _get_rag: "return self._rag_ollama"
get_rag_return(c) ==
    /\ requests[c].pc = "get_rag_return"
    /\ requests' = [requests EXCEPT ![c].rag = rag[LLM_OLLAMA],
                                    ![c].pc = "search"]
    /\ UNCHANGED <<CLAUDE_AVAILABLE, rag, chat_history, pc, op, locals, heap>>
    /\ UNCHANGED <<enforcer, ingestion>>

\* a store that hands the list of its first search to every later search
SearchHandles_cached(h, found) ==
    IF h = <<>>
    THEN [heap |-> h \o found,
          docs |-> [i \in DOMAIN found |-> Len(h) + i]]
    ELSE [heap |-> h,
          docs |-> [i \in 1..Min(Len(found), Len(h)) |-> i]]

\* PineconeStore.search builds a new dict for every match of every call
SearchHandles(h, found) ==
    [heap |-> h \o found,
     docs |-> [i \in DOMAIN found |-> Len(h) + i]]

\* the dicts a list of references points to, each with its reference
Deref(h, refs) ==
    [i \in DOMAIN refs |->
        [text |-> h[refs[i]].text, score |-> h[refs[i]].score,
         metadata |-> h[refs[i]].metadata, ref |-> refs[i]]]
Refs(boxed) == [i \in DOMAIN boxed |-> boxed[i].ref]
Values(boxed) ==
    [i \in DOMAIN boxed |->
        [text |-> boxed[i].text, score |-> boxed[i].score,
         metadata |-> boxed[i].metadata]]

\* the heap after a call has written to the dicts it holds
Written(h, boxed) ==
    [o \in DOMAIN h |->
        IF \E i \in DOMAIN boxed : boxed[i].ref = o
        THEN LET i == CHOOSE i \in DOMAIN boxed :
                         /\ boxed[i].ref = o
                         /\ \A j \in DOMAIN boxed :
                               boxed[j].ref = o =>
                                  boxed[j].metadata.rerank_score = NoScore
                                  \/ boxed[i].metadata.rerank_score # NoScore
             IN  [text |-> boxed[i].text, score |-> boxed[i].score,
                  metadata |-> boxed[i].metadata]
        ELSE h[o]]

\* query(): detect the language, translate the query, search
concurrent_search(c) ==
    /\ requests[c].pc = "search"
    /\ \E ok \in BOOLEAN :
         LET r == DetectAndTranslate(requests[c].question, NULL, ok)
         IN  \/ \E found \in ConcurrentResults :
                  LET s == SearchHandles(heap, found)
                  IN  /\ heap' = s.heap
                      /\ requests' = [requests EXCEPT
                            ![c].query_lang = r.query_lang,
                            ![c].response_lang = r.response_lang,
                            ![c].found = found,
                            ![c].docs = s.docs,
                            ![c].pc = "rerank"]
             \/ /\ heap' = heap
                /\ requests' = [requests EXCEPT
                      ![c].query_lang = r.query_lang,
                      ![c].response_lang = r.response_lang,
                      ![c].pc = "raised"]
    /\ UNCHANGED <<CLAUDE_AVAILABLE, rag, chat_history, pc, op, locals>>
    /\ UNCHANGED <<enforcer, ingestion>>

\* query(): the rerank block and the filter, on the dicts the call holds
concurrent_rerank(c) ==
    /\ requests[c].pc = "rerank"
    /\ LET held == Deref(heap, requests[c].docs)
       IN  \E predicted \in PredictOutcomes(held) :
             LET r == Rerank(requests[c].rag.reranker, held, predicted)
                 kept == RelevanceFilter(r.relevant_docs, r.reranked)
             IN  /\ heap' = Written(heap, r.docs)
                 /\ requests' = [requests EXCEPT
                       ![c].predicted = IF ShouldRerank(requests[c].rag.reranker,
                                                        held)
                                        THEN predicted ELSE NoPrediction,
                       ![c].docs = Refs(r.docs),
                       ![c].relevant_docs = Refs(kept),
                       ![c].reranked = r.reranked,
                       ![c].pc = "respond"]
    /\ UNCHANGED <<CLAUDE_AVAILABLE, rag, chat_history, pc, op, locals>>
    /\ UNCHANGED <<enforcer, ingestion>>

\* the response query() builds from what it is given
ResponseFor(q_lang, r_lang, llm_type, kept, was_reranked) ==
    IF kept = <<>>
    THEN RAGResponse(NoInfoMessage(q_lang, r_lang, "en", 0).text, <<>>,
                     q_lang, "Low", llm_type, was_reranked)
    ELSE RAGResponse(ensure_response_language(ConcurrentAnswer, r_lang,
                                              "en", 0).text,
                     extract_sources(kept), q_lang,
                     calculate_confidence(kept), llm_type, was_reranked)

\* query(): the early return, or generation, enforcement and sources
concurrent_respond(c) ==
    /\ requests[c].pc = "respond"
    /\ LET kept == Values(Deref(heap, requests[c].relevant_docs))
       IN  \/ requests' = [requests EXCEPT
                 ![c].rag_response =
                     ResponseFor(requests[c].query_lang,
                                 requests[c].response_lang,
                                 requests[c].rag.llm_type, kept,
                                 requests[c].reranked),
                 ![c].pc = "returned"]
           \/ /\ kept # <<>>
              /\ requests' = [requests EXCEPT ![c].pc = "raised"]
    /\ UNCHANGED <<CLAUDE_AVAILABLE, rag, chat_history, pc, op, locals, heap>>
    /\ UNCHANGED <<enforcer, ingestion>>

\* the caller has its response: the call's locals go out of scope
concurrent_return(c) ==
    /\ requests[c].pc \in {"returned", "raised"}
    /\ \A d \in Clients : requests[d].pc \in {"returned", "raised"}
    /\ requests' = [d \in Clients |-> IdleRequest]
    /\ heap' = <<>>
    /\ UNCHANGED <<CLAUDE_AVAILABLE, rag, chat_history, pc, op, locals>>
    /\ UNCHANGED <<enforcer, ingestion>>

NextConcurrent ==
    \/ \E c \in Clients : get_rag(c)
    \/ \E c \in Clients : get_rag_create(c)
    \/ \E c \in Clients : get_rag_return(c)
    \/ \E c \in Clients : concurrent_search(c)
    \/ \E c \in Clients : concurrent_rerank(c)
    \/ \E c \in Clients : concurrent_respond(c)
    \/ \E c \in Clients : concurrent_return(c)

SpecConcurrent == Init /\ [][NextConcurrent]_vars

\* what the call of client c gets when nothing else runs: the same pipeline,
\* the same matches and the same reranker output, computed in one go
AloneScored(c) ==
    Rerank(requests[c].rag.reranker, requests[c].found, requests[c].predicted)
AloneKept(c) ==
    LET scored == AloneScored(c)
    IN  RelevanceFilter(scored.relevant_docs, scored.reranked)
Alone(c) ==
    LET language == DetectAndTranslate(requests[c].question, NULL, TRUE)
    IN  ResponseFor(language.query_lang, language.response_lang,
                    requests[c].rag.llm_type, AloneKept(c),
                    AloneScored(c).reranked)

\* C25: two calls served at the same time share no request state: the
\* passages a call holds are never held or written by the other call, each
\* call's passages and scores are at every step what the call alone made
\* them, and each response is the response the call would get alone.  Only
\* the lazily created pipeline is common to both.
C25_RequestsIsolated ==
    \A c \in Clients :
        LET r == requests[c]
        IN  /\ \A d \in Clients \ {c} :
                  {r.docs[i] : i \in DOMAIN r.docs} \cap
                  {requests[d].docs[i] : i \in DOMAIN requests[d].docs} = {}
            /\ (r.pc = "rerank") => Values(Deref(heap, r.docs)) = r.found
            /\ (r.pc \in {"respond", "returned"}) =>
                  /\ Values(Deref(heap, r.docs)) = AloneScored(c).docs
                  /\ Values(Deref(heap, r.relevant_docs)) = AloneKept(c)
            /\ (r.pc = "returned") => r.rag_response = Alone(c)
            /\ (r.pc \in {"search", "rerank", "respond", "returned"}) =>
                  (r.rag.built /\ r.rag.llm_type = LLM_OLLAMA)

\* both calls hold passages of the same document at the same time; one has
\* been reranked and answered, the other is about to be reranked
C25_Witness ==
    /\ requests[1].pc = "returned"
    /\ requests[1].reranked
    /\ requests[1].rag_response.sources # <<>>
    /\ requests[2].pc = "rerank"
    /\ requests[2].found = requests[1].found
    /\ Len(heap) = 2 * MaxConcurrentDocs

=============================================================================
